---- MODULE Spec2Model ----
(***************************************************************************)
(* Session state of the plant-recognition front end.                       *)
(*                                                                         *)
(* Two controllers are in the repository: src/frontend/src/App.jsx (file   *)
(* upload only) and the App component in src/frontend/tailwind.config.js   *)
(* (file upload and camera capture).  Both keep the same React state; a    *)
(* behaviour of the model is a run of one of them, fixed by `controller`.  *)
(*                                                                         *)
(* Every handler runs to completion on the single UI thread; the two       *)
(* axios.post calls, getUserMedia and canvas.toBlob suspend, so each has   *)
(* an "issued" step and a later "settled" step, and the requests in        *)
(* flight are part of the state.  A handler is reachable only through the  *)
(* element it is bound to, so a `disabled` attribute or a conditional      *)
(* render is part of the guard of its action.                              *)
(*                                                                         *)
(* Text is a sequence of strings: one character per element for what the   *)
(* user types, one piece per element for a template literal.               *)
(***************************************************************************)
EXTENDS Naturals, Sequences, FiniteSets

VARIABLES
    controller,       \* which of the two App components is running
    selectedFile,     \* useState(null)
    previewUrl,       \* useState(null)
    isLoading,        \* useState(false)
    error,            \* useState(null)
    detectionResult,  \* useState(null)
    chatPlantName,    \* useState('your plant')
    chatInput,        \* useState('')
    chatMessages,     \* useState([])
    isChatLoading,    \* useState(false)
    cameraOpen,       \* useState(false)            (camera controller only)
    cameraError,      \* useState(null)             (camera controller only)
    cameraStream,     \* useState(null)             (camera controller only)
    detectRequests,   \* POST /predict calls awaiting their response
    chatRequests,     \* POST /chat calls awaiting their response
    cameraRequests,   \* getUserMedia promises not yet settled
    blobRequests,     \* canvas.toBlob callbacks not yet run
    liveStreams       \* the MediaStreams obtained whose tracks were never stopped

vars == <<controller, selectedFile, previewUrl, isLoading, error, detectionResult,
          chatPlantName, chatInput, chatMessages, isChatLoading, cameraOpen,
          cameraError, cameraStream, detectRequests, chatRequests,
          cameraRequests, blobRequests, liveStreams>>

sessionVars == <<selectedFile, previewUrl, isLoading, error, detectionResult,
                 chatPlantName, chatInput, chatMessages, isChatLoading,
                 detectRequests, chatRequests>>

cameraVars == <<cameraOpen, cameraError, cameraStream, cameraRequests, blobRequests,
                liveStreams>>

(***************************************************************************)
(* Bounds of the model.                                                    *)
(***************************************************************************)
\* Messages in the transcript, counting the replies still awaited: a message
\* is sent only while its reply and those of the requests in flight fit.
MaxMessages == 3
\* getUserMedia promises and toBlob callbacks pending at once, taken together.
MaxCameraPending == 1

(***************************************************************************)
(* Values.                                                                 *)
(***************************************************************************)
\* null, for state that holds a sequence when it holds a value: a File is
\* <<name, ...>>, a URL and a text are sequences of strings, and
\* detectionResult is <<response.data>>.
Null == <<>>

Controllers == {"App", "CameraApp"}

\* e.target.files[0]: a file picked in the dialog, or nothing when the
\* dialog was cancelled.
Files == {<<"A.png">>, <<"B.png">>}
NoFile == Null

\* What canvas.toBlob hands its callback: the frame drawn from the video,
\* encoded as image/jpeg.  The null it hands over for a canvas without
\* pixels is not modelled.
Frame == <<"frame">>
Blobs == {Frame}

\* new File([blob], 'captured_image.jpg', { type: 'image/jpeg' })
CapturedFile(blob) == <<"captured_image.jpg">> \o blob

\* URL.createObjectURL(x)
ObjectURL(x) == <<"blob:">> \o x

DefaultPlantName == "your plant"

\* What the user can have typed into the chat box.
ChatInputs == {<<>>, <<" ", " ">>, <<" ", "a">>}

\* PlantRecord: {name, scientific_name, ...} or {name, error}.
Identified(name) == [name |-> name]
Unidentified == [name |-> "Unknown", error |-> "no match"]

\* The plant_data arrays the detection service answers with.
PlantDataArrays ==
    { <<>>,
      <<Identified("Neem")>>,
      <<Identified("")>>,
      <<Unidentified>>,
      <<Unidentified, Identified("Neem")>> }

\* response.data of POST /predict.
DetectionData ==
    {[annotated_image |-> <<"annotated">>, plant_data |-> pd] : pd \in PlantDataArrays}

\* response.data of POST /chat.
ChatData ==
    { [response |-> <<"answer">>],
      [error |-> <<"service error">>],
      [response |-> <<>>, error |-> <<"service error">>] }

(***************************************************************************)
(* JavaScript expressions the handlers use.                                *)
(***************************************************************************)
\* obj.field is truthy, for a field that holds a string: the field is there
\* and is not ''.
Truthy(obj, field) ==
    /\ field \in DOMAIN obj
    /\ obj[field] # ""

\* a || b, for two fields that hold a text: a missing field is undefined, and
\* undefined || undefined is undefined.
UndefinedText == <<"undefined">>
FirstTruthyText(obj, a, b) ==
    IF a \in DOMAIN obj /\ obj[a] # <<>> THEN obj[a]
    ELSE IF b \in DOMAIN obj THEN obj[b]
    ELSE UndefinedText

\* String.prototype.trim
RECURSIVE TrimStart(_)
TrimStart(s) ==
    IF s # <<>> /\ Head(s) = " " THEN TrimStart(Tail(s)) ELSE s

RECURSIVE TrimEnd(_)
TrimEnd(s) ==
    IF s # <<>> /\ s[Len(s)] = " " THEN TrimEnd(SubSeq(s, 1, Len(s) - 1)) ELSE s

Trim(s) == TrimEnd(TrimStart(s))

(***************************************************************************)
(* The texts the two controllers show.                                     *)
(***************************************************************************)
Greeting(plantName) ==
    IF controller = "App"
    THEN <<"I've identified ", plantName, ". Feel free to ask me any questions about it!">>
    ELSE <<"I've identified ", plantName, ". Ask me anything about it!">>

NotDetectedText ==
    IF controller = "App"
    THEN <<"I couldn't detect a specific plant, but you can still ask general questions.">>
    ELSE <<"I couldn't detect a specific plant.">>

DetectionErrorText ==
    IF controller = "App"
    THEN <<"An error occurred during detection. Is the backend server running?">>
    ELSE <<"Error during detection. Is backend running?">>

ChatErrorText ==
    IF controller = "App"
    THEN <<"Sorry, I ran into an error. Please try again.">>
    ELSE <<"Error, please try again.">>

CameraErrorText == <<"Unable to access camera. Please allow permissions.">>

BotMessage(text) == [sender |-> "bot", text |-> text]
UserMessage(text) == [sender |-> "user", text |-> text]

(***************************************************************************)
(* Requests in flight.  `stale` is history, not program state: it records  *)
(* that the image was replaced or the selection cleared after the request  *)
(* was issued.  The program keeps no such mark.  `redetect`, of a          *)
(* detection request, is history too: a result was on display when the     *)
(* request was issued.                                                     *)
(***************************************************************************)
MarkStale(requests) ==
    [i \in DOMAIN requests |-> [requests[i] EXCEPT !.stale = TRUE]]

RemoveAt(requests, i) ==
    SubSeq(requests, 1, i - 1) \o SubSeq(requests, i + 1, Len(requests))

SupersedeRequests ==
    /\ detectRequests' = MarkStale(detectRequests)
    /\ chatRequests' = MarkStale(chatRequests)

(***************************************************************************)
(* Initial state: the useState initial values, nothing in flight.          *)
(***************************************************************************)
Init ==
    /\ controller \in Controllers
    /\ selectedFile = Null
    /\ previewUrl = Null
    /\ isLoading = FALSE
    /\ error = Null
    /\ detectionResult = Null
    /\ chatPlantName = DefaultPlantName
    /\ chatInput = <<>>
    /\ chatMessages = <<>>
    /\ isChatLoading = FALSE
    /\ cameraOpen = FALSE
    /\ cameraError = Null
    /\ cameraStream = Null
    /\ detectRequests = <<>>
    /\ chatRequests = <<>>
    /\ cameraRequests = 0
    /\ blobRequests = 0
    /\ liveStreams = {}

(***************************************************************************)
(* File handling.                                                          *)
(***************************************************************************)
\* ClearResults with the two chat resets left out.
ClearResultsKeepingChat ==
    /\ detectionResult' = Null
    /\ error' = Null
    /\ UNCHANGED <<chatMessages, chatPlantName>>

ClearResults ==
    /\ detectionResult' = Null
    /\ error' = Null
    /\ chatMessages' = <<>>
    /\ chatPlantName' = DefaultPlantName

\* onChange of the file input; `file` is e.target.files[0].
HandleFileChange(file) ==
    /\ IF file # NoFile
       THEN /\ selectedFile' = file
            /\ previewUrl' = ObjectURL(file)
            /\ ClearResults
            /\ SupersedeRequests
       ELSE UNCHANGED <<selectedFile, previewUrl, detectionResult, error, chatMessages,
                        chatPlantName, detectRequests, chatRequests>>
    /\ UNCHANGED <<controller, isLoading, chatInput, isChatLoading, cameraVars>>

\* ClearSelection without setPreviewUrl(null).
ClearSelectionKeepingPreview ==
    /\ previewUrl # Null
    /\ selectedFile' = Null
    /\ ClearResults
    /\ SupersedeRequests
    /\ UNCHANGED <<controller, previewUrl, isLoading, chatInput, isChatLoading,
                   cameraVars>>

\* The X button on the preview, which is rendered only while previewUrl is set.
ClearSelection ==
    /\ previewUrl # Null
    /\ selectedFile' = Null
    /\ previewUrl' = Null
    /\ ClearResults
    /\ SupersedeRequests
    /\ UNCHANGED <<controller, isLoading, chatInput, isChatLoading, cameraVars>>

(***************************************************************************)
(* Detection.                                                              *)
(***************************************************************************)
\* DetectDisabled without the isLoading test.
DetectDisabledIgnoringLoading == selectedFile = Null

\* DetectDisabled without the test of the file: disabled={isLoading}
DetectDisabledIgnoringFile == isLoading

\* disabled={!selectedFile || isLoading} on the Detect Plant button.
DetectDisabled == selectedFile = Null \/ isLoading

\* HandleSubmitDetection without setDetectionResult(null): the result on
\* display stays until the response replaces it.
HandleSubmitDetectionKeepingResult ==
    /\ ~DetectDisabled
    /\ IF selectedFile = Null
       THEN UNCHANGED <<isLoading, error, detectRequests>>
       ELSE /\ isLoading' = TRUE
            /\ error' = Null
            /\ detectRequests' = Append(detectRequests,
                   [file |-> selectedFile, redetect |-> detectionResult # Null,
                    stale |-> FALSE])
    /\ UNCHANGED <<controller, selectedFile, previewUrl, detectionResult, chatPlantName,
                   chatInput, chatMessages, isChatLoading, chatRequests, cameraVars>>

\* HandleSubmitDetection with clearResults() in place of the two setters: the
\* transcript and the bound name go with the result.
HandleSubmitDetectionClearingChat ==
    /\ ~DetectDisabled
    /\ IF selectedFile = Null
       THEN UNCHANGED <<isLoading, error, detectionResult, detectRequests, chatMessages,
                        chatPlantName>>
       ELSE /\ isLoading' = TRUE
            /\ ClearResults
            /\ detectRequests' = Append(detectRequests,
                   [file |-> selectedFile, redetect |-> detectionResult # Null,
                    stale |-> FALSE])
    /\ UNCHANGED <<controller, selectedFile, previewUrl, chatInput, isChatLoading,
                   chatRequests, cameraVars>>

\* HandleSubmitDetection without setError(null): the banner of an earlier
\* failure stays up.
HandleSubmitDetectionKeepingError ==
    /\ ~DetectDisabled
    /\ IF selectedFile = Null
       THEN UNCHANGED <<isLoading, detectionResult, detectRequests>>
       ELSE /\ isLoading' = TRUE
            /\ detectionResult' = Null
            /\ detectRequests' = Append(detectRequests,
                   [file |-> selectedFile, redetect |-> detectionResult # Null,
                    stale |-> FALSE])
    /\ UNCHANGED <<controller, selectedFile, previewUrl, error, chatPlantName, chatInput,
                   chatMessages, isChatLoading, chatRequests, cameraVars>>

\* onClick of the Detect Plant button, up to the await.
HandleSubmitDetection ==
    /\ ~DetectDisabled
    /\ IF selectedFile = Null
       THEN UNCHANGED <<isLoading, error, detectionResult, detectRequests>>
       ELSE /\ isLoading' = TRUE
            /\ error' = Null
            /\ detectionResult' = Null
            /\ detectRequests' = Append(detectRequests,
                   [file |-> selectedFile, redetect |-> detectionResult # Null,
                    stale |-> FALSE])
    /\ UNCHANGED <<controller, selectedFile, previewUrl, chatPlantName, chatInput,
                   chatMessages, isChatLoading, chatRequests, cameraVars>>

\* plant_data && plant_data.length > 0 && !plant_data[0].error
FirstRecordIdentified(data) ==
    /\ "plant_data" \in DOMAIN data
    /\ Len(data.plant_data) > 0
    /\ ~Truthy(data.plant_data[1], "error")

\* plant_data[0].name || 'your plant'
PlantNameOf(data) ==
    IF Truthy(data.plant_data[1], "name") THEN data.plant_data[1].name ELSE DefaultPlantName

\* SeedChat written as a functional update, the way handleSubmitChat adds
\* its messages: the greeting is appended to the transcript.
SeedChatAppending(data) ==
    IF FirstRecordIdentified(data)
    THEN /\ chatPlantName' = PlantNameOf(data)
         /\ chatMessages' = Append(chatMessages, BotMessage(Greeting(PlantNameOf(data))))
    ELSE /\ chatMessages' = Append(chatMessages, BotMessage(NotDetectedText))
         /\ UNCHANGED chatPlantName

\* The chat context set from a response: the try block after setDetectionResult.
SeedChat(data) ==
    IF FirstRecordIdentified(data)
    THEN /\ chatPlantName' = PlantNameOf(data)
         /\ chatMessages' = <<BotMessage(Greeting(PlantNameOf(data)))>>
    ELSE /\ chatMessages' = <<BotMessage(NotDetectedText)>>
         /\ UNCHANGED chatPlantName

\* The POST /predict of request i resolves with `data`: the rest of the try
\* block, then finally.
DetectionSucceeds(i, data) ==
    /\ detectionResult' = <<data>>
    /\ SeedChat(data)
    /\ isLoading' = FALSE
    /\ detectRequests' = RemoveAt(detectRequests, i)
    /\ UNCHANGED <<controller, selectedFile, previewUrl, error, chatInput, isChatLoading,
                   chatRequests, cameraVars>>

\* DetectionFails with a catch block that only logs: no setError.
DetectionFailsSilently(i) ==
    /\ isLoading' = FALSE
    /\ detectRequests' = RemoveAt(detectRequests, i)
    /\ UNCHANGED <<controller, selectedFile, previewUrl, error, detectionResult,
                   chatPlantName, chatInput, chatMessages, isChatLoading, chatRequests,
                   cameraVars>>

\* DetectionFails with a catch block that posts the image again.
DetectionFailsRetrying(i) ==
    /\ error' = DetectionErrorText
    /\ detectRequests' = Append(RemoveAt(detectRequests, i), detectRequests[i])
    /\ UNCHANGED <<controller, selectedFile, previewUrl, isLoading, detectionResult,
                   chatPlantName, chatInput, chatMessages, isChatLoading, chatRequests,
                   cameraVars>>

\* DetectionFails without the finally block: setIsLoading(false) only in try.
DetectionFailsWithoutFinally(i) ==
    /\ error' = DetectionErrorText
    /\ detectRequests' = RemoveAt(detectRequests, i)
    /\ UNCHANGED <<controller, selectedFile, previewUrl, isLoading, detectionResult,
                   chatPlantName, chatInput, chatMessages, isChatLoading, chatRequests,
                   cameraVars>>

\* The POST /predict of request i rejects: catch, then finally.
DetectionFails(i) ==
    /\ error' = DetectionErrorText
    /\ isLoading' = FALSE
    /\ detectRequests' = RemoveAt(detectRequests, i)
    /\ UNCHANGED <<controller, selectedFile, previewUrl, detectionResult, chatPlantName,
                   chatInput, chatMessages, isChatLoading, chatRequests, cameraVars>>

(***************************************************************************)
(* Chat.                                                                   *)
(***************************************************************************)
\* onChange of the chat text box.
SetChatInput(text) ==
    /\ text # chatInput
    /\ chatInput' = text
    /\ UNCHANGED <<controller, selectedFile, previewUrl, isLoading, error, detectionResult,
                   chatPlantName, chatMessages, isChatLoading, detectRequests,
                   chatRequests, cameraVars>>

\* App.jsx: disabled={isChatLoading} on the Send button, the form's only
\* submit button, so the form cannot be submitted while it is disabled.
\* The camera controller's Send button has no disabled attribute.
SendDisabled == controller = "App" /\ isChatLoading

\* IsBlank without the trim: !chatInput
IsEmpty(text) == text = <<>>

\* !chatInput.trim()
IsBlank(text) == Trim(text) = <<>>

\* HandleSubmitChat with a request built from the state after setChatInput(''):
\* the message sent is the emptied chat box.
HandleSubmitChatSendingBox ==
    /\ ~SendDisabled
    /\ IF IsBlank(chatInput)
       THEN UNCHANGED <<chatMessages, chatInput, isChatLoading, chatRequests>>
       ELSE /\ Len(chatMessages) + Len(chatRequests) + 2 <= MaxMessages
            /\ chatMessages' = Append(chatMessages, UserMessage(chatInput))
            /\ chatInput' = <<>>
            /\ isChatLoading' = TRUE
            /\ chatRequests' = Append(chatRequests,
                   [plant_name |-> chatPlantName, message |-> <<>>, stale |-> FALSE])
    /\ UNCHANGED <<controller, selectedFile, previewUrl, isLoading, error, detectionResult,
                   chatPlantName, detectRequests, cameraVars>>

\* onSubmit of the chat form, up to the await.
HandleSubmitChat ==
    /\ ~SendDisabled
    /\ IF IsBlank(chatInput)
       THEN UNCHANGED <<chatMessages, chatInput, isChatLoading, chatRequests>>
       ELSE /\ Len(chatMessages) + Len(chatRequests) + 2 <= MaxMessages
            /\ chatMessages' = Append(chatMessages, UserMessage(chatInput))
            /\ chatInput' = <<>>
            /\ isChatLoading' = TRUE
            /\ chatRequests' = Append(chatRequests,
                   [plant_name |-> chatPlantName, message |-> chatInput, stale |-> FALSE])
    /\ UNCHANGED <<controller, selectedFile, previewUrl, isLoading, error, detectionResult,
                   chatPlantName, detectRequests, cameraVars>>

\* ChatSucceeds with setChatMessages([botMessage]) in place of the
\* functional update.
ChatSucceedsReplacing(i, data) ==
    /\ chatMessages' = <<BotMessage(FirstTruthyText(data, "response", "error"))>>
    /\ isChatLoading' = FALSE
    /\ chatRequests' = RemoveAt(chatRequests, i)
    /\ UNCHANGED <<controller, selectedFile, previewUrl, isLoading, error, detectionResult,
                   chatPlantName, chatInput, detectRequests, cameraVars>>

\* ChatSucceeds with text: response.data.response alone, which is undefined
\* when the reply has no response field.
ChatSucceedsResponseOnly(i, data) ==
    /\ chatMessages' = Append(chatMessages,
           BotMessage(IF "response" \in DOMAIN data THEN data.response ELSE UndefinedText))
    /\ isChatLoading' = FALSE
    /\ chatRequests' = RemoveAt(chatRequests, i)
    /\ UNCHANGED <<controller, selectedFile, previewUrl, isLoading, error, detectionResult,
                   chatPlantName, chatInput, detectRequests, cameraVars>>

\* The POST /chat of request i resolves with `data`: the rest of the try
\* block, then finally.
ChatSucceeds(i, data) ==
    /\ chatMessages' = Append(chatMessages, BotMessage(FirstTruthyText(data, "response", "error")))
    /\ isChatLoading' = FALSE
    /\ chatRequests' = RemoveAt(chatRequests, i)
    /\ UNCHANGED <<controller, selectedFile, previewUrl, isLoading, error, detectionResult,
                   chatPlantName, chatInput, detectRequests, cameraVars>>

\* ChatFails without the finally block: setIsChatLoading(false) only in try.
ChatFailsWithoutFinally(i) ==
    /\ chatMessages' = Append(chatMessages, BotMessage(ChatErrorText))
    /\ chatRequests' = RemoveAt(chatRequests, i)
    /\ UNCHANGED <<controller, selectedFile, previewUrl, isLoading, error, detectionResult,
                   chatPlantName, chatInput, isChatLoading, detectRequests, cameraVars>>

\* The POST /chat of request i rejects: catch, then finally.
ChatFails(i) ==
    /\ chatMessages' = Append(chatMessages, BotMessage(ChatErrorText))
    /\ isChatLoading' = FALSE
    /\ chatRequests' = RemoveAt(chatRequests, i)
    /\ UNCHANGED <<controller, selectedFile, previewUrl, isLoading, error, detectionResult,
                   chatPlantName, chatInput, detectRequests, cameraVars>>

(***************************************************************************)
(* Camera (the controller in tailwind.config.js only).                     *)
(***************************************************************************)
\* The MediaStream objects getUserMedia can resolve with.
Streams == {<<"stream 1">>, <<"stream 2">>}

\* A MediaStream just created: none of those that hold the camera.
NewStream == CHOOSE stream \in Streams : stream \notin liveStreams

\* onClick of Open Camera, up to the await.
StartCamera ==
    /\ controller = "CameraApp"
    /\ cameraRequests + blobRequests < MaxCameraPending
    /\ Cardinality(liveStreams) + cameraRequests < Cardinality(Streams)
    /\ cameraRequests' = cameraRequests + 1
    /\ UNCHANGED <<controller, sessionVars, cameraOpen, cameraError, cameraStream,
                   blobRequests, liveStreams>>

\* getUserMedia resolves: the rest of the try block.
CameraGranted ==
    /\ cameraRequests > 0
    /\ cameraRequests' = cameraRequests - 1
    /\ liveStreams' = liveStreams \cup {NewStream}
    /\ cameraStream' = NewStream
    /\ cameraOpen' = TRUE
    /\ cameraError' = Null
    /\ UNCHANGED <<controller, sessionVars, blobRequests>>

\* CameraDenied with setCameraOpen(true) in the catch block, so that the
\* panel that shows cameraError is rendered.
CameraDeniedOpeningPanel ==
    /\ cameraRequests > 0
    /\ cameraRequests' = cameraRequests - 1
    /\ cameraError' = CameraErrorText
    /\ cameraOpen' = TRUE
    /\ UNCHANGED <<controller, sessionVars, cameraStream, blobRequests, liveStreams>>

\* getUserMedia rejects: catch.
CameraDenied ==
    /\ cameraRequests > 0
    /\ cameraRequests' = cameraRequests - 1
    /\ cameraError' = CameraErrorText
    /\ UNCHANGED <<controller, sessionVars, cameraOpen, cameraStream, blobRequests,
                   liveStreams>>

\* The Capture Photo button, the <video> and the <canvas> are rendered while
\* cameraOpen is set and cameraError is not, so both refs are set whenever
\* the button can be clicked.
CaptureRendered == cameraOpen /\ cameraError = Null

\* onClick of Capture Photo: everything but the toBlob callback.  The tracks
\* of the stream in cameraStream are stopped; no other stream is reachable
\* from the component.
CapturePhoto ==
    /\ controller = "CameraApp"
    /\ CaptureRendered
    /\ cameraRequests + blobRequests < MaxCameraPending
    /\ blobRequests' = blobRequests + 1
    /\ liveStreams' = IF cameraStream # Null THEN liveStreams \ {cameraStream}
                                              ELSE liveStreams
    /\ cameraOpen' = FALSE
    /\ cameraStream' = Null
    /\ UNCHANGED <<controller, sessionVars, cameraError, cameraRequests>>

\* The callback given to canvas.toBlob, which runs after capturePhoto has
\* returned.
ToBlobCallback(blob) ==
    /\ blobRequests > 0
    /\ blobRequests' = blobRequests - 1
    /\ selectedFile' = CapturedFile(blob)
    /\ previewUrl' = ObjectURL(blob)
    /\ ClearResults
    /\ SupersedeRequests
    /\ UNCHANGED <<controller, isLoading, chatInput, isChatLoading, cameraOpen,
                   cameraError, cameraStream, cameraRequests, liveStreams>>

(***************************************************************************)
(* The specification.                                                      *)
(***************************************************************************)
Next ==
    \/ \E file \in Files \cup {NoFile} : HandleFileChange(file)
    \/ ClearSelection
    \/ HandleSubmitDetection
    \/ \E i \in DOMAIN detectRequests :
           \E data \in DetectionData : DetectionSucceeds(i, data)
    \/ \E i \in DOMAIN detectRequests : DetectionFails(i)
    \/ \E text \in ChatInputs : SetChatInput(text)
    \/ HandleSubmitChat
    \/ \E i \in DOMAIN chatRequests : \E data \in ChatData : ChatSucceeds(i, data)
    \/ \E i \in DOMAIN chatRequests : ChatFails(i)
    \/ StartCamera
    \/ CameraGranted
    \/ CameraDenied
    \/ CapturePhoto
    \/ \E blob \in Blobs : ToBlobCallback(blob)

Spec == Init /\ [][Next]_vars

\* An awaited axios.post promise settles: the browser resolves or rejects
\* every request, so a /chat call in flight is not left waiting for ever.
ChatSettles ==
    \E i \in DOMAIN chatRequests :
        ChatFails(i) \/ \E data \in ChatData : ChatSucceeds(i, data)

FairSpec == Spec /\ WF_vars(ChatSettles)

(***************************************************************************)
(* Properties.                                                             *)
(***************************************************************************)
Range(seq) == {seq[k] : k \in DOMAIN seq}

\* C1: a detection response is applied only if the session is unchanged
\* since the request was issued: when the request that resolves
\* successfully was issued before the image was replaced or the selection
\* cleared, detectionResult, chatMessages and chatPlantName stay as the
\* replacement or the clearing (and whatever followed it) left them.
C1_StaleDetectionDropped ==
    [][\A i \in DOMAIN detectRequests : \A data \in DetectionData :
          (detectRequests[i].stale /\ DetectionSucceeds(i, data))
              => UNCHANGED <<detectionResult, chatMessages, chatPlantName>>]_vars

\* C2: a chat response, success or failure, to a request issued before the
\* image was replaced or the selection cleared appends nothing to the
\* transcript.
C2_StaleChatDropped ==
    [][\A i \in DOMAIN chatRequests :
          (/\ chatRequests[i].stale
           /\ ChatFails(i) \/ \E data \in ChatData : ChatSucceeds(i, data))
              => chatMessages' = chatMessages]_vars

\* The detection requests in flight that were issued for the image now
\* selected.
DetectionsOfCurrentImage ==
    {i \in DOMAIN detectRequests :
        ~detectRequests[i].stale /\ detectRequests[i].file = selectedFile}

\* C3: at most one detection request is in flight for the selected image,
\* and while one is in flight the detect action cannot be invoked again.
C3_OneDetectionPerImage ==
    /\ Cardinality(DetectionsOfCurrentImage) <= 1
    /\ DetectionsOfCurrentImage # {} => DetectDisabled

\* C3's case: a detection is in flight for the selected image.
C3_Witness ==
    /\ selectedFile # Null
    /\ DetectionsOfCurrentImage # {}
    /\ isLoading

\* The name a successful response binds the chat to: that of a record
\* without an error flag, the placeholder when the record has no name.
NameOfRecord(record) ==
    IF Truthy(record, "name") THEN record.name ELSE DefaultPlantName

\* C4: chatPlantName is the placeholder or the name derived from the most
\* recent successful detection of the selected image.  Step by step: a
\* successful response to a request issued for the selected image sets it to
\* the name that response yields (the placeholder when it identifies
\* nothing), a response to a superseded request leaves it alone, and
\* replacing or clearing the image resets it to the placeholder.
C4_NameFromCurrentDetection ==
    [][/\ \A i \in DOMAIN detectRequests : \A data \in DetectionData :
              DetectionSucceeds(i, data) =>
                  IF detectRequests[i].stale
                  THEN chatPlantName' = chatPlantName
                  ELSE chatPlantName' =
                           (IF FirstRecordIdentified(data)
                            THEN NameOfRecord(data.plant_data[1])
                            ELSE DefaultPlantName)
       /\ selectedFile' # selectedFile => chatPlantName' = DefaultPlantName]_vars

\* The state right after an image source was set.
SourceSet(file, url) ==
    /\ selectedFile = file
    /\ previewUrl = url
    /\ detectionResult = Null
    /\ error = Null
    /\ chatMessages = <<>>
    /\ chatPlantName = DefaultPlantName

OnlySpaces(text) == \A k \in DOMAIN text : text[k] = " "

\* C6: submitting the chat form with an input that is empty or only
\* whitespace changes neither the transcript, the input nor isChatLoading,
\* and issues no request.
C6_BlankMessageIgnored ==
    [][(OnlySpaces(chatInput) /\ HandleSubmitChat)
          => UNCHANGED <<chatMessages, chatInput, isChatLoading, chatRequests>>]_vars

\* C6's case: the input is whitespace, the form can be submitted, and there
\* is a transcript to leave alone.  The handler changes nothing from here,
\* so this is the state after it as well as before it.
C6_Witness ==
    /\ chatInput = <<" ", " ">>
    /\ ~SendDisabled
    /\ chatMessages # <<>>

\* The first record has a name and no error flag.
FirstRecordNamed(data) ==
    /\ Len(data.plant_data) > 0
    /\ "error" \notin DOMAIN data.plant_data[1]
    /\ data.plant_data[1].name # ""

\* One message, from the assistant, a greeting that mentions `name`.
GreetingOnly(messages, name) ==
    /\ Len(messages) = 1
    /\ messages[1].sender = "bot"
    /\ messages[1].text[1] = "I've identified "
    /\ name \in Range(messages[1].text)

\* C7: when a detection of the selected image resolves with a first record
\* that has a name N and no error flag, chatPlantName becomes N and the
\* transcript becomes one assistant greeting that mentions N, whatever it
\* held before.
C7_NamedPlantSeedsChat ==
    [][\A i \in DOMAIN detectRequests : \A data \in DetectionData :
          (/\ ~detectRequests[i].stale
           /\ FirstRecordNamed(data)
           /\ DetectionSucceeds(i, data))
              => /\ chatPlantName' = data.plant_data[1].name
                 /\ GreetingOnly(chatMessages', data.plant_data[1].name)]_vars

\* C7's case: the detection of the selected image named Neem, and a chat
\* message sent while it was in flight is still unanswered, so the
\* transcript was not empty when the response arrived.
C7_Witness ==
    /\ detectionResult # Null
    /\ FirstRecordNamed(detectionResult[1])
    /\ chatPlantName = "Neem"
    /\ GreetingOnly(chatMessages, "Neem")
    /\ \E i \in DOMAIN chatRequests : ~chatRequests[i].stale

\* plant_data is empty or holds only records with an error flag.
NothingIdentified(data) ==
    \A k \in DOMAIN data.plant_data : Truthy(data.plant_data[k], "error")

\* C8: when a detection of the selected image resolves with plant_data
\* empty or holding only records with an error flag, the transcript becomes
\* the one "could not identify" message and chatPlantName is the
\* placeholder.
C8_NothingIdentifiedSeedsChat ==
    [][\A i \in DOMAIN detectRequests : \A data \in DetectionData :
          (/\ ~detectRequests[i].stale
           /\ NothingIdentified(data)
           /\ DetectionSucceeds(i, data))
              => /\ chatMessages' = <<BotMessage(NotDetectedText)>>
                 /\ chatPlantName' = DefaultPlantName]_vars

\* C9: when a detection of the selected image resolves and some record of
\* plant_data, at any index, has no error flag, the chat is bound to that
\* record's name and the transcript is the greeting; the "could not
\* identify" transcript is seeded only when there is no such record.
C9_AnyIdentifiedRecordBinds ==
    [][\A i \in DOMAIN detectRequests : \A data \in DetectionData :
          (~detectRequests[i].stale /\ DetectionSucceeds(i, data))
              => IF NothingIdentified(data)
                 THEN chatMessages' = <<BotMessage(NotDetectedText)>>
                 ELSE \E k \in DOMAIN data.plant_data :
                          /\ ~Truthy(data.plant_data[k], "error")
                          /\ chatPlantName' = NameOfRecord(data.plant_data[k])
                          /\ chatMessages' = <<BotMessage(Greeting(chatPlantName'))>>]_vars

\* C10: at most one chat request is in flight.
C10_OneChatInFlight == Len(chatRequests) <= 1

\* C11: the camera is held by no stream other than the one in cameraStream:
\* every stream obtained from getUserMedia has had its tracks stopped by the
\* time it stops being the current cameraStream, so the streams with live
\* tracks are the current one, if any, and nothing else.
C11_StreamReleased == \A stream \in liveStreams : stream = cameraStream

\* C12: the finally block of handleSubmitChat runs for every request: once
\* its response or failure has come, a state with isChatLoading = FALSE
\* follows every accepted message, and isChatLoading is FALSE whenever no
\* chat request is in flight.
C12_ChatPendingCleared ==
    /\ [](chatRequests = <<>> => ~isChatLoading)
    /\ (isChatLoading ~> ~isChatLoading)

\* A message was sent, its request has settled and the indicator is off.
C12_Witness ==
    /\ chatRequests = <<>>
    /\ ~isChatLoading
    /\ Len(chatMessages) >= 2
    /\ chatMessages[Len(chatMessages) - 1].sender = "user"
    /\ chatMessages[Len(chatMessages)].sender = "bot"

\* C13: when the detection request of the image still selected fails, the
\* session has an error, no detection result and isLoading = FALSE, and the
\* transcript and the bound plant name are what they were.
C13_DetectionFailureRecorded ==
    [][\A i \in DOMAIN detectRequests :
           (DetectionFails(i) /\ ~detectRequests[i].stale)
               => /\ error' # Null
                  /\ detectionResult' = Null
                  /\ ~isLoading'
                  /\ UNCHANGED <<chatMessages, chatPlantName>>]_vars

\* A detection of the selected image failed after an earlier one had bound
\* the chat to a plant.
C13_Witness ==
    /\ selectedFile # Null
    /\ detectRequests = <<>>
    /\ error # Null
    /\ detectionResult = Null
    /\ ~isLoading
    /\ chatPlantName = "Neem"
    /\ chatMessages # <<>>

\* A detection of the image still selected, issued while a result was on
\* display, fails.
RedetectFails(i) ==
    /\ DetectionFails(i)
    /\ detectRequests[i].redetect
    /\ ~detectRequests[i].stale

\* C14, as stated: when a detection issued from the detected state fails,
\* the result that was on display before the request is still present.
C14_PreviousResultKept ==
    [][\A i \in DOMAIN detectRequests : RedetectFails(i) => detectionResult' # Null]_vars

\* C14, amended: the request clears the result on display when it is issued,
\* and when it fails the result is not restored: detectionResult is null and
\* the error is set, while the failure leaves the image, the transcript and
\* the bound plant name as they were.
C14_PreviousResultCleared ==
    [][\A i \in DOMAIN detectRequests :
           RedetectFails(i)
               => /\ detectionResult = Null
                  /\ detectionResult' = Null
                  /\ error' # Null
                  /\ UNCHANGED <<selectedFile, previewUrl, chatMessages, chatPlantName>>]_vars

\* A second detection of the same image has failed: the greeting of the
\* first is still the transcript, and no result is on display.
C14_Witness ==
    /\ selectedFile # Null
    /\ detectRequests = <<>>
    /\ ~isLoading
    /\ error # Null
    /\ detectionResult = Null
    /\ GreetingOnly(chatMessages, chatPlantName)

\* C15: right after a new image is selected or captured, isLoading and
\* isChatLoading are both FALSE, whatever requests of the previous image are
\* still in flight.
C15_NewImageClearsLoading ==
    [][((\E file \in Files : HandleFileChange(file))
            \/ (\E blob \in Blobs : ToBlobCallback(blob)))
           => (~isLoading' /\ ~isChatLoading')]_vars

\* The session after clearSelection: nothing selected, nothing detected, no
\* error, an empty transcript and the placeholder name.
SessionCleared ==
    /\ selectedFile = Null
    /\ previewUrl = Null
    /\ detectionResult = Null
    /\ error = Null
    /\ chatMessages = <<>>
    /\ chatPlantName = "your plant"

\* A step that sends neither a /predict nor a /chat request.
NoRequestIssued ==
    /\ Len(detectRequests') <= Len(detectRequests)
    /\ Len(chatRequests') <= Len(chatRequests)

\* C16, as stated: clearSelection can be invoked in every state, and it
\* always ends in the cleared session without issuing a request.
C16_ClearAlwaysEnabled ==
    /\ [](ENABLED ClearSelection)
    /\ [][ClearSelection => (SessionCleared' /\ NoRequestIssued)]_vars

\* C16, amended: clearSelection can be invoked in every state that shows a
\* preview, and it always ends in the cleared session without issuing a
\* request.
C16_ClearResetsSession ==
    /\ [](previewUrl # Null => ENABLED ClearSelection)
    /\ [][ClearSelection => (SessionCleared' /\ NoRequestIssued)]_vars

\* The selection was cleared while a detection was in flight: the request is
\* still the only one, and the session is the cleared one.
C16_Witness ==
    /\ SessionCleared
    /\ Len(detectRequests) = 1
    /\ detectRequests[1].stale
    /\ isLoading

\* C17: a chat request is issued only from the detected state, that is only
\* while a detection result is on display; with no image, with an image not
\* yet detected, during a detection and after a failed one, submitting the
\* chat form sends nothing.
C17_ChatOnlyWhenDetected ==
    [][Len(chatRequests') > Len(chatRequests) => detectionResult # Null]_vars

\* The text a /chat response carries: its response, or its error when it has
\* no response or an empty one.
ReturnedText(data) ==
    IF "response" \in DOMAIN data /\ data.response # <<>> THEN data.response
    ELSE data.error

\* `after` is `before` with `message` added at the end.
Appended(before, after, message) ==
    /\ Len(after) = Len(before) + 1
    /\ \A k \in DOMAIN before : after[k] = before[k]
    /\ after[Len(after)] = message

\* C18: an accepted message is in the transcript, as the user's, by the time
\* its request is in flight; a response that comes back while the session
\* is the one it was sent from adds exactly one assistant message at the
\* end, with the returned text on success and the retry notice on failure;
\* and no step of the chat removes or changes a message of the transcript.
C18_TranscriptAppendOnly ==
    [][/\ (~OnlySpaces(chatInput) /\ HandleSubmitChat)
              => /\ Appended(chatMessages, chatMessages',
                             [sender |-> "user", text |-> chatInput])
                 /\ Len(chatRequests') = Len(chatRequests) + 1
       /\ \A i \in DOMAIN chatRequests :
              ~chatRequests[i].stale
                  => /\ \A data \in ChatData :
                         ChatSucceeds(i, data)
                             => Appended(chatMessages, chatMessages',
                                         [sender |-> "bot", text |-> ReturnedText(data)])
                     /\ ChatFails(i)
                             => Appended(chatMessages, chatMessages',
                                         [sender |-> "bot", text |-> ChatErrorText])
       /\ (chatRequests' # chatRequests /\ (HandleSubmitChat \/ ChatSettles))
              => /\ Len(chatMessages') >= Len(chatMessages)
                 /\ \A k \in DOMAIN chatMessages : chatMessages'[k] = chatMessages[k]
      ]_vars

\* A question about the detected plant and its answer follow the greeting.
C18_Witness ==
    /\ chatRequests = <<>>
    /\ Len(chatMessages) = 3
    /\ GreetingOnly(<<chatMessages[1]>>, "Neem")
    /\ chatMessages[2] = [sender |-> "user", text |-> <<" ", "a">>]
    /\ chatMessages[3] = [sender |-> "bot", text |-> <<"answer">>]

\* C19: requests are sent by the two submit handlers only, one for each
\* accepted submit, and a failed response takes its request out of flight
\* without sending another: nothing is retried.
C19_NoAutoRetry ==
    [][/\ Len(detectRequests') > Len(detectRequests)
              => (HandleSubmitDetection /\ Len(detectRequests') = Len(detectRequests) + 1)
       /\ Len(chatRequests') > Len(chatRequests)
              => (HandleSubmitChat /\ Len(chatRequests') = Len(chatRequests) + 1)
       /\ HandleSubmitDetection => Len(detectRequests') = Len(detectRequests) + 1
       /\ \A i \in DOMAIN detectRequests :
              DetectionFails(i)
                  => /\ Len(detectRequests') = Len(detectRequests) - 1
                     /\ Len(chatRequests') = Len(chatRequests)
       /\ \A i \in DOMAIN chatRequests :
              ChatFails(i)
                  => /\ Len(chatRequests') = Len(chatRequests) - 1
                     /\ Len(detectRequests') = Len(detectRequests)
      ]_vars

\* A detection and then a chat message have both failed, and nothing is in
\* flight.
C19_Witness ==
    /\ detectRequests = <<>>
    /\ chatRequests = <<>>
    /\ ~isLoading
    /\ ~isChatLoading
    /\ error # Null
    /\ chatMessages # <<>>
    /\ chatMessages[Len(chatMessages)].text = ChatErrorText

\* C20: with no image selected a detection cannot be requested: the Detect
\* Plant button is disabled, and a run of its handler sends no request and
\* leaves isLoading, error, detectionResult, the transcript and the bound
\* plant name as they were.
C20_NoImageNoDetection ==
    /\ [](selectedFile = Null => DetectDisabled)
    /\ [][(selectedFile = Null /\ HandleSubmitDetection)
              => UNCHANGED <<detectRequests, isLoading, error, detectionResult,
                             chatMessages, chatPlantName>>]_vars
    /\ [][Len(detectRequests') > Len(detectRequests) => selectedFile # Null]_vars

\* Nothing is selected and nothing is loading, so the missing image is all
\* that keeps the Detect Plant button disabled.
C20_Witness ==
    /\ selectedFile = Null
    /\ ~isLoading
    /\ DetectDisabled
    /\ detectRequests = <<>>
    /\ chatMessages # <<>>

\* C21: the request an accepted message sends carries the plant name bound
\* at the moment of the submit and, as its message, the text that was in the
\* chat box, untrimmed, the same text the user's message in the transcript
\* has, although the chat box is emptied before the request goes out.
C21_ChatRequestPayload ==
    [][(~OnlySpaces(chatInput) /\ HandleSubmitChat)
           => /\ Len(chatRequests') = Len(chatRequests) + 1
              /\ chatRequests'[Len(chatRequests')].plant_name = chatPlantName
              /\ chatRequests'[Len(chatRequests')].message = chatInput
              /\ chatMessages'[Len(chatMessages')].text = chatInput
              /\ chatInput' = <<>>]_vars

\* A question about the detected plant is in flight with its leading space,
\* and the chat box is empty.
C21_Witness ==
    /\ chatInput = <<>>
    /\ Len(chatRequests) = 1
    /\ chatRequests[1].plant_name = "Neem"
    /\ chatRequests[1].message = <<" ", "a">>
    /\ chatMessages # <<>>
    /\ chatMessages[Len(chatMessages)] = [sender |-> "user", text |-> <<" ", "a">>]

\* C22: when POST /chat resolves, the assistant message added to the
\* transcript has the reply's response as its text when that is not empty and
\* the reply's error otherwise; the error banner is left as it was, and the
\* text is not the retry notice.
C22_ReplyTextFromResponse ==
    [][\A i \in DOMAIN chatRequests : \A data \in ChatData :
           ChatSucceeds(i, data)
               => /\ Len(chatMessages') = Len(chatMessages) + 1
                  /\ chatMessages'[Len(chatMessages')].sender = "bot"
                  /\ chatMessages'[Len(chatMessages')].text = ReturnedText(data)
                  /\ chatMessages'[Len(chatMessages')].text # ChatErrorText
                  /\ UNCHANGED error]_vars

\* The service has answered a question with an error of its own, and the
\* assistant's message carries it.
C22_Witness ==
    /\ chatRequests = <<>>
    /\ error = Null
    /\ Len(chatMessages) >= 2
    /\ chatMessages[Len(chatMessages) - 1].sender = "user"
    /\ chatMessages[Len(chatMessages)] = [sender |-> "bot", text |-> <<"service error">>]

\* C23: a detection started while a result is on display sets isLoading,
\* clears the result and the error, and leaves the selected file, the
\* preview, the transcript and the bound plant name to the response.
C23_RedetectFrame ==
    [][(detectionResult # Null /\ HandleSubmitDetection)
           => /\ isLoading'
              /\ detectionResult' = Null
              /\ error' = Null
              /\ UNCHANGED <<selectedFile, previewUrl, chatMessages, chatPlantName>>]_vars

\* A second detection of the selected image is in flight: the result is
\* gone, the greeting and the name of the first are still there.
C23_Witness ==
    /\ isLoading
    /\ Len(detectRequests) = 1
    /\ detectRequests[1].redetect
    /\ ~detectRequests[1].stale
    /\ detectionResult = Null
    /\ error = Null
    /\ chatPlantName = "Neem"
    /\ GreetingOnly(chatMessages, "Neem")

\* C24: the error banner and a detection result are never on display
\* together: whenever error is set, detectionResult is null.
C24_ErrorExcludesResult == error # Null => detectionResult = Null

\* The banner is up over a selected image after a failed detection, with
\* nothing in flight.
C24_Witness ==
    /\ error # Null
    /\ detectionResult = Null
    /\ previewUrl # Null
    /\ detectRequests = <<>>

\* C25: isLoading is TRUE in exactly the states in which a POST /predict is
\* awaiting its response, whatever images were selected or cleared since it
\* was sent.
C25_LoadingIffDetecting == isLoading <=> detectRequests # <<>>

\* The image was cleared while its detection was in flight: the request is
\* still awaited, and isLoading is still set.
C25_Witness ==
    /\ isLoading
    /\ selectedFile = Null
    /\ Len(detectRequests) = 1
    /\ detectRequests[1].stale
    /\ chatMessages = <<>>

\* C26: cameraOpen is TRUE exactly when cameraStream holds a stream: a
\* refused getUserMedia leaves both as they were, and capturePhoto closes the
\* camera and drops the stream in the same step.
C26_OpenIffStream ==
    /\ [](cameraOpen <=> cameraStream # Null)
    /\ [][CameraDenied => UNCHANGED <<cameraOpen, cameraStream>>]_vars
    /\ [][CapturePhoto => (~cameraOpen' /\ cameraStream' = Null)]_vars

\* The camera was opened, and a second request for it was refused: the
\* panel is still open on the stream of the first.
C26_Witness ==
    /\ controller = "CameraApp"
    /\ cameraOpen
    /\ cameraStream # Null
    /\ cameraError # Null
====
